---- MODULE Spec2Model ----
(***************************************************************************)
(* A model of the Hugging Face -> TFDS adapter:                            *)
(*   tensorflow_datasets/core/utils/huggingface_utils.py                   *)
(*   tensorflow_datasets/core/dataset_builders/huggingface_dataset_builder.py *)
(*                                                                         *)
(* Python values are tagged records [k |-> <kind>, ...]; a raised          *)
(* exception is the value [k |-> "err", e |-> <exception type>].           *)
(***************************************************************************)
EXTENDS Integers, Sequences, FiniteSets, TLC

VARIABLES
    fs,          \* the paths that exist on the filesystem (epath.Path.exists)
    hf_value,    \* convert_hf_value: the Hugging Face value handed in
    feature,     \* convert_hf_value / _get_default_value: the TFDS feature
    result,      \* what the call returned (or the exception it raised)
    cpc,         \* "ready" | "converted" | "defaulted" ("off": no call in this run)
    hf_features, \* extract_features: the Hugging Face feature spec handed in
    tfds_features, \* extract_features: the TFDS feature returned (or the exception)
    epc,         \* "ready" | "extracted" ("off": no call in this run)
    builders,    \* the HuggingfaceDatasetBuilder instances, each with its arguments
    env_token,   \* os.environ.get("HUGGING_FACE_HUB_TOKEN")
    lru,         \* the lru_cache of _download_and_prepare_for_hf: <<self, value>> entries
    info_memo,   \* per builder, the memoized _info() (None before the first call)
    logins,      \* per builder, the huggingface_hub.login calls made for it
    downloads,   \* per builder, the download_and_prepare/as_dataset calls made for it
    returned,    \* per builder, the dataset objects _download_and_prepare_for_hf returned
    handed,      \* per builder, the verification_mode values handed to each foreign call
    calls,       \* the calls made so far
    tfds_num_proc, \* the builder's tfds_num_proc: None, or the pool's size
    split_order, \* the split names of the downloaded dataset, in dict order
    ds,          \* per split, the records of its data, in stream order
    pipe,        \* per split, the generator _generate_examples(data) and its pool
    yielded,     \* per split, the pairs its generator has yielded so far
    head,        \* per split, the [first_example] part of its itertools.chain
    stream,      \* per split, the filtered stream as its consumer sees it
    emitted,     \* per split, the pairs the filtered stream has delivered
    non_empty_splits, \* _remove_empty_splits: the names kept, in insertion order
    warnings,    \* the split names logged as empty, in order
    cursor,      \* _remove_empty_splits: the position of its loop in split_order
    pc           \* "filter" | "peeking" | "returned" | "raised" ("off": not run)

convVars == <<hf_value, feature, result, cpc>>
extractVars == <<hf_features, tfds_features, epc>>

builderVars ==
    <<builders, env_token, lru, info_memo, logins, downloads, returned, handed, calls>>

pipelineVars ==
    <<tfds_num_proc, split_order, ds, pipe, yielded, head, stream, emitted,
      non_empty_splits, warnings, cursor, pc>>

vars == <<fs, convVars, extractVars, builderVars, pipelineVars>>

(***************************************************************************)
(* Python values                                                           *)
(***************************************************************************)
None == [k |-> "None"]
IntV(n) == [k |-> "int", v |-> n]
\* A float sample or timestamp, held in halves: Float(3) is 1.5.
Float(h) == [k |-> "float", h |-> h]
Str(s) == [k |-> "str", s |-> s]
Bytes(s) == [k |-> "bytes", s |-> s]
Bool(b) == [k |-> "bool", b |-> b]
\* datetime.datetime whose timestamp() is h/2 seconds.
Datetime(h) == [k |-> "datetime", h |-> h]
\* A PIL image in the given mode.
PILImage(mode) == [k |-> "image", mode |-> mode]
List(items) == [k |-> "list", items |-> items]
Dict(m) == [k |-> "dict", m |-> m]
\* epath.Path(p)
Path(p) == [k |-> "path", p |-> p]
\* np.finfo(dtype).min, kept symbolic (about -3.4e38 for 32 bits).
FInfoMin(bits) == [k |-> "finfo_min", bits |-> bits]
Err(e) == [k |-> "err", e |-> e]
IsErr(v) == v.k = "err"

\* int(x) of the float x = h/2: truncation towards zero.
IntOfHalves(h) == IF h >= 0 THEN h \div 2 ELSE -((-h) \div 2)

\* bool(v), as `if x := ...` tests it.
Truthy(v) ==
    CASE v.k = "None" -> FALSE
      [] v.k = "int" -> v.v # 0
      [] v.k = "float" -> v.h # 0
      [] v.k = "bool" -> v.b
      [] v.k = "str" -> v.s # ""
      [] v.k = "bytes" -> v.s # ""
      [] v.k = "list" -> Len(v.items) > 0
      [] v.k = "dict" -> DOMAIN v.m # {}
      [] OTHER -> TRUE

\* dict.get(name): None for an absent key.
DictGet(d, name) == IF name \in DOMAIN d.m THEN d.m[name] ELSE None

\* The first raised exception of a comprehension's results, in order.
HasErr(seq) == \E i \in 1..Len(seq) : IsErr(seq[i])
FirstErr(seq) ==
    seq[CHOOSE i \in 1..Len(seq) :
            IsErr(seq[i]) /\ \A j \in 1..(i - 1) : ~IsErr(seq[j])]

(***************************************************************************)
(* TFDS features (feature_lib.FeatureConnector)                            *)
(***************************************************************************)
DType(kind, bits) == [k |-> "dtype", kind |-> kind, bits |-> bits]
Scalar(dt) == [k |-> "Scalar", np_dtype |-> dt]
ClassLabelFeature == [k |-> "ClassLabel", np_dtype |-> DType("int", 16)]
Tensor(dt) == [k |-> "Tensor", np_dtype |-> dt]
ImageFeature == [k |-> "Image", np_dtype |-> DType("uint", 8)]
AudioFeature(rate) ==
    [k |-> "Audio", np_dtype |-> DType("int", 16), sample_rate |-> rate]
\* names keeps the order of feature.items().
FeaturesDict(names, sub) == [k |-> "FeaturesDict", names |-> names, sub |-> sub]
SequenceFeature(inner) == [k |-> "Sequence", feature |-> inner]

\* A {name: value} comprehension over the ordered names.
DictOf(names, vals) ==
    IF HasErr(vals) THEN FirstErr(vals)
    ELSE Dict([n \in {names[i] : i \in 1..Len(names)} |->
                 vals[CHOOSE i \in 1..Len(names) : names[i] = n]])

\* np.iinfo(dtype).min
IInfoMin(dt) == IF dt.kind = "uint" THEN 0 ELSE -(2 ^ (dt.bits - 1))

RECURSIVE _get_default_value(_)
_get_default_value(f) ==
    CASE f.k = "FeaturesDict" ->
            DictOf(f.names,
                   [i \in 1..Len(f.names) |-> _get_default_value(f.sub[f.names[i]])])
      [] f.k = "Sequence" -> List(<<>>)
      [] OTHER ->
            CASE f.np_dtype.kind = "string" -> Bytes("")
              [] f.np_dtype.kind \in {"int", "uint"} -> IntV(IInfoMin(f.np_dtype))
              [] f.np_dtype.kind = "float" -> FInfoMin(f.np_dtype.bits)
              [] f.np_dtype.kind = "bool" -> Bool(FALSE)
              [] OTHER -> Err("ValueError")

\* int(sample * feature.sample_rate) of one audio sample.
AudioSample(sample, rate) ==
    CASE sample.k = "float" -> IntV(IntOfHalves(sample.h * rate))
      [] sample.k = "int" -> IntV(sample.v * rate)
      [] OTHER -> Err("TypeError")

\* A [f(x) for x in ...] comprehension.
ListOf(vals) == IF HasErr(vals) THEN FirstErr(vals) ELSE List(vals)

\* The audio branch: the array when truthy, else the path when truthy and existing,
\* else the function falls through to its final raise.
ConvertAudio(v, f, files) ==
    IF v.k # "dict" THEN Err("AttributeError")
    ELSE LET array == DictGet(v, "array")
             path == DictGet(v, "path")
         IN  IF Truthy(array)
             THEN IF array.k # "list" THEN Err("TypeError")
                  ELSE ListOf([i \in 1..Len(array.items) |->
                                  AudioSample(array.items[i], f.sample_rate)])
             ELSE IF Truthy(path) /\ path.k = "str" /\ path.s \in files
                  THEN Path(path.s)
                  ELSE Err("ValueError")

\* The fall-back arm of the sequence branch: `case _: return [hf_value]`.
WrapBare(v, inner) == List(<<v>>)

RECURSIVE Convert(_, _, _)
\* One column of the columnar (dict of lists) form.
ConvertColumn(col, subfeature, files) ==
    IF col.k # "list" THEN Err("TypeError")
    ELSE ListOf([i \in 1..Len(col.items) |->
                    Convert(col.items[i], subfeature, files)])

Convert(v, f, files) ==
    CASE v.k = "None" -> _get_default_value(f)
      [] v.k = "datetime" -> IntV(IntOfHalves(v.h))
      [] OTHER ->
        CASE f.k \in {"ClassLabel", "Scalar"} -> v
          [] f.k = "FeaturesDict" ->
                IF v.k # "dict" THEN Err("AttributeError")
                ELSE DictOf(f.names,
                            [i \in 1..Len(f.names) |->
                                Convert(DictGet(v, f.names[i]), f.sub[f.names[i]], files)])
          [] f.k = "Sequence" ->
                CASE v.k = "dict" ->
                        IF f.feature.k # "FeaturesDict" THEN Err("AttributeError")
                        ELSE DictOf(f.feature.names,
                                    [i \in 1..Len(f.feature.names) |->
                                        ConvertColumn(DictGet(v, f.feature.names[i]),
                                                      f.feature.sub[f.feature.names[i]],
                                                      files)])
                  [] v.k = "list" ->
                        ListOf([i \in 1..Len(v.items) |->
                                   Convert(v.items[i], f.feature, files)])
                  [] OTHER -> WrapBare(v, f.feature)
          [] f.k = "Audio" -> ConvertAudio(v, f, files)
          [] f.k = "Image" ->
                IF v.k = "image" THEN PILImage("RGB") ELSE Err("AttributeError")
          [] f.k = "Tensor" -> v
          [] OTHER -> Err("ValueError")

\* convert_hf_value(hf_value, feature) on the current filesystem.
convert_hf_value(v, f) == Convert(v, f, fs)

(***************************************************************************)
(* Inputs of the conversion                                                *)
(***************************************************************************)
I8 == Scalar(DType("int", 8))
StrF == Scalar(DType("string", 0))
F32 == Scalar(DType("float", 32))
BoolF == Scalar(DType("bool", 8))
ComplexF == Scalar(DType("complex", 64))
Aud == AudioFeature(3)
RecAB == FeaturesDict(<<"a", "b">>, [n \in {"a", "b"} |-> IF n = "a" THEN I8 ELSE StrF])
RecNested ==
    FeaturesDict(<<"f", "g">>,
                 [n \in {"f", "g"} |-> IF n = "f" THEN SequenceFeature(I8) ELSE RecAB])
RecBad == FeaturesDict(<<"a", "z">>, [n \in {"a", "z"} |-> IF n = "a" THEN I8 ELSE ComplexF])

FeatureSpecs ==
    { I8, StrF, F32, BoolF, ComplexF, ClassLabelFeature, Tensor(DType("int", 16)),
      ImageFeature, Aud, RecAB, RecNested, RecBad,
      SequenceFeature(I8), SequenceFeature(SequenceFeature(I8)),
      SequenceFeature(ImageFeature), SequenceFeature(RecAB), SequenceFeature(Aud) }

Paths == {"/a.wav", "/b.wav"}

AudioValues ==
    { Dict([n \in {"array", "path"} |->
               IF n = "array" THEN List(<<Float(1), Float(-3)>>) ELSE Str("/a.wav")]),
      Dict([n \in {"array", "path"} |->
               IF n = "array" THEN List(<<>>) ELSE Str("/a.wav")]),
      Dict([n \in {"array", "path"} |->
               IF n = "array" THEN List(<<>>) ELSE None]),
      Dict([n \in {"array", "path"} |->
               IF n = "array" THEN None ELSE Str("")]),
      Dict([n \in {"array"} |-> List(<<Float(3), Float(2), Float(-1)>>)]),
      Dict([n \in {"path"} |-> Str("/a.wav")]),
      Dict([n \in {"path"} |-> Str("/b.wav")]) }

HfValues ==
    { None, IntV(5), IntV(0), Str("x"), Datetime(3), Datetime(-3), PILImage("RGBA"),
      List(<<>>), List(<<IntV(1), IntV(2)>>), List(<<None, IntV(5)>>),
      List(<<PILImage("L")>>),
      Dict(<<>>),
      Dict([n \in {"a", "b"} |-> IF n = "a" THEN IntV(1) ELSE Str("x")]),
      Dict([n \in {"a"} |-> IntV(1)]),
      Dict([n \in {"a", "b"} |->
               IF n = "a" THEN List(<<IntV(1), IntV(2)>>) ELSE List(<<Str("x"), Str("y")>>)]),
      Dict([n \in {"a", "b"} |->
               IF n = "a" THEN List(<<None, IntV(2)>>) ELSE List(<<Str("x"), None>>)]),
      Dict([n \in {"a"} |-> List(<<IntV(1)>>)]),
      Dict([n \in {"f"} |-> IntV(7)]) }
    \cup AudioValues

\* The parts of the state a run does not use.
PipelineOff ==
    /\ tfds_num_proc = None /\ split_order = <<>> /\ ds = <<>> /\ pipe = <<>>
    /\ yielded = <<>> /\ head = <<>> /\ stream = <<>> /\ emitted = <<>>
    /\ non_empty_splits = <<>> /\ warnings = <<>> /\ cursor = 0 /\ pc = "off"
ConvOff == hf_value = None /\ feature = None /\ result = None /\ cpc = "off"
ExtractOff == hf_features = None /\ tfds_features = None /\ epc = "off"
BuilderOff ==
    /\ builders = <<>> /\ env_token = None /\ lru = <<>> /\ info_memo = <<>>
    /\ logins = <<>> /\ downloads = <<>> /\ returned = <<>> /\ handed = <<>>
    /\ calls = 0

(***************************************************************************)
(* The conversion as a state machine: one call per behaviour               *)
(***************************************************************************)
ConvInit ==
    /\ fs \in {{}, {"/a.wav"}}
    /\ hf_value \in HfValues
    /\ feature \in FeatureSpecs
    /\ result = None
    /\ cpc = "ready"
    /\ ExtractOff
    /\ BuilderOff
    /\ PipelineOff

\* result = convert_hf_value(hf_value, feature)
CallConvert ==
    /\ cpc = "ready"
    /\ result' = convert_hf_value(hf_value, feature)
    /\ cpc' = "converted"
    /\ UNCHANGED <<fs, hf_value, feature, extractVars, builderVars, pipelineVars>>

\* result = _get_default_value(feature)
CallDefault ==
    /\ cpc = "ready"
    /\ result' = _get_default_value(feature)
    /\ cpc' = "defaulted"
    /\ UNCHANGED <<fs, hf_value, feature, extractVars, builderVars, pipelineVars>>

ConvNext == CallConvert \/ CallDefault

SpecConvert == ConvInit /\ [][ConvNext]_vars

(***************************************************************************)
(* Claims about the value converter (checked under SpecConvert)            *)
(***************************************************************************)
IsNullAt(v, name) == DictGet(v, name) = None

\* Every column the foreign map does hold converts without an exception.
PresentColumnsConvert(v, inner) ==
    \A n \in DOMAIN inner.sub :
        ~IsNullAt(v, n) => ~IsErr(ConvertColumn(DictGet(v, n), inner.sub[n], fs))

\* C7: a null foreign value converts to the synthesized default of its node, and
\* so does a null or absent value met during the recursion: an absent record
\* field, a null sequence element, an absent column of a columnar sequence; none
\* of them raises.
C7_NullPrecedence ==
    cpc = "converted" =>
        /\ hf_value = None => result = _get_default_value(feature)
        /\ (feature.k = "FeaturesDict" /\ hf_value.k = "dict" /\ result.k = "dict") =>
              \A n \in DOMAIN feature.sub :
                  IsNullAt(hf_value, n) =>
                      result.m[n] = _get_default_value(feature.sub[n])
        /\ (feature.k = "Sequence" /\ hf_value.k = "list" /\ result.k = "list") =>
              \A i \in 1..Len(hf_value.items) :
                  hf_value.items[i] = None =>
                      result.items[i] = _get_default_value(feature.feature)
        /\ ( /\ feature.k = "Sequence"
             /\ feature.feature.k = "FeaturesDict"
             /\ hf_value.k = "dict"
             /\ PresentColumnsConvert(hf_value, feature.feature) ) =>
              \A n \in DOMAIN feature.feature.sub :
                  IsNullAt(hf_value, n) =>
                      /\ result.k = "dict"
                      /\ result.m[n] \in
                            { _get_default_value(SequenceFeature(feature.feature.sub[n])),
                              _get_default_value(feature.feature.sub[n]) }

\* C8: against a sequence node, (a) a map of parallel sequences converts column by
\* column, (b) an ordered sequence converts element by element, in order, and
\* (c) a bare non-null scalar v becomes the one-element sequence holding v
\* converted against the inner schema.
C8_SequenceShapes ==
    (cpc = "converted" /\ feature.k = "Sequence") =>
        LET inner == feature.feature IN
        /\ ( /\ hf_value.k = "dict"
             /\ inner.k = "FeaturesDict"
             /\ \A n \in DOMAIN inner.sub : DictGet(hf_value, n).k = "list" ) =>
              result = DictOf(inner.names,
                              [i \in 1..Len(inner.names) |->
                                  ListOf([j \in 1..Len(hf_value.m[inner.names[i]].items) |->
                                      convert_hf_value(hf_value.m[inner.names[i]].items[j],
                                                       inner.sub[inner.names[i]])])])
        /\ hf_value.k = "list" =>
              result = ListOf([i \in 1..Len(hf_value.items) |->
                                  convert_hf_value(hf_value.items[i], inner)])
        /\ hf_value.k \notin {"None", "datetime", "dict", "list"} =>
              result = ListOf(<<convert_hf_value(hf_value, inner)>>)

\* C10: against an audio leaf, a present sample array (an empty one included)
\* converts to the list of its converted samples, in order, whatever the path;
\* without an array, a path that is present and exists is returned; with neither,
\* the conversion raises.
C10_AudioLeaf ==
    (cpc = "converted" /\ feature.k = "Audio" /\ hf_value.k = "dict") =>
        LET array == DictGet(hf_value, "array")
            path == DictGet(hf_value, "path")
        IN  IF array.k = "list"
            THEN result = ListOf([i \in 1..Len(array.items) |->
                                     AudioSample(array.items[i], feature.sample_rate)])
            ELSE IF path.k = "str" /\ path.s \in fs
                 THEN result = Path(path.s)
                 ELSE IsErr(result)

(***************************************************************************)
(* Schema translation: convert_to_np_dtype and extract_features            *)
(***************************************************************************)
\* Hugging Face feature specs.
HfValue(dtype) == [k |-> "Value", dtype |-> dtype]
HfClassLabel(names, names_file, num_classes) ==
    [k |-> "ClassLabel", names |-> names, names_file |-> names_file,
     num_classes |-> num_classes]
HfSequence(inner) == [k |-> "HfSequence", feature |-> inner]
HfDict(names, sub) == [k |-> "dict", names |-> names, sub |-> sub]
HfTranslation(languages) == [k |-> "Translation", languages |-> languages]
HfTranslationVL(languages) ==
    [k |-> "TranslationVariableLanguages", languages |-> languages]
HfImage == [k |-> "HfImage"]
HfAudio(rate) == [k |-> "HfAudio", sampling_rate |-> rate]
HfArray2D == [k |-> "Array2D"]

\* _HF_DTYPE_TO_NP_DTYPE
HfDtypeTable ==
    [n \in {"bool", "float", "double", "large_string", "utf8", "string"} |->
        CASE n = "bool" -> DType("bool", 8)
          [] n = "float" -> DType("float", 32)
          [] n = "double" -> DType("float", 64)
          [] OTHER -> DType("string", 0)]
\* The names hasattr(np, name) finds, with the dtype each names.
NpAttrs ==
    [n \in {"int8", "int16", "int64", "uint8", "float32"} |->
        CASE n = "int8" -> DType("int", 8)
          [] n = "int16" -> DType("int", 16)
          [] n = "int64" -> DType("int", 64)
          [] n = "uint8" -> DType("uint", 8)
          [] OTHER -> DType("float", 32)]
\* The names that start with 'timestamp'.
TimestampNames == {"timestamp[s]", "timestamp[ms]"}
\* The names hasattr(tf.dtypes, name) finds.
TfAttrs == [n \in {"bfloat16"} |-> DType("float", 16)]

convert_to_np_dtype(hf_dtype) ==
    CASE hf_dtype \in DOMAIN HfDtypeTable -> HfDtypeTable[hf_dtype]
      [] hf_dtype \in DOMAIN NpAttrs -> NpAttrs[hf_dtype]
      [] hf_dtype \in TimestampNames -> DType("int", 64)
      [] hf_dtype \in DOMAIN TfAttrs -> TfAttrs[hf_dtype]
      [] OTHER -> Err("ValueError")

\* feature_lib.ClassLabel(<by>=<arg>)
ClassLabelBy(by, arg) ==
    [k |-> "ClassLabel", np_dtype |-> DType("int", 64), by |-> by, arg |-> arg]

\* The ClassLabel arm: a mutation of it that asks for the names file first.
ClassLabelFileFirst(f) ==
    IF Truthy(f.names_file) THEN ClassLabelBy("names_file", f.names_file)
    ELSE IF Truthy(f.names) THEN ClassLabelBy("names", f.names)
    ELSE IF Truthy(f.num_classes) THEN ClassLabelBy("num_classes", f.num_classes)
    ELSE Err("ValueError")

\* The ClassLabel arm of extract_features; with none of the three set, no later
\* isinstance test matches and the function ends in its final raise.
ExtractClassLabel(f) ==
    IF Truthy(f.names) THEN ClassLabelBy("names", f.names)
    ELSE IF Truthy(f.names_file) THEN ClassLabelBy("names_file", f.names_file)
    ELSE IF Truthy(f.num_classes) THEN ClassLabelBy("num_classes", f.num_classes)
    ELSE Err("ValueError")

\* FeaturesDict({name: ...}) built by the comprehension over hf_features.items().
FeaturesDictOf(names, subs) ==
    IF HasErr(subs) THEN FirstErr(subs)
    ELSE FeaturesDict(names,
                      [n \in {names[i] : i \in 1..Len(names)} |->
                          subs[CHOOSE i \in 1..Len(names) : names[i] = n]])

SequenceOf(inner) == IF IsErr(inner) THEN inner ELSE SequenceFeature(inner)

RECURSIVE extract_features(_)
extract_features(f) ==
    CASE f.k = "dict" ->
            FeaturesDictOf(f.names,
                           [i \in 1..Len(f.names) |-> extract_features(f.sub[f.names[i]])])
      [] f.k = "HfSequence" -> SequenceOf(extract_features(f.feature))
      [] f.k = "list" ->
            IF Len(f.items) # 1 THEN Err("ValueError")
            ELSE SequenceOf(extract_features(f.items[1]))
      [] f.k = "Value" ->
            LET dt == convert_to_np_dtype(f.dtype)
            IN  IF IsErr(dt) THEN dt ELSE Scalar(dt)
      [] f.k = "ClassLabel" -> ExtractClassLabel(f)
      [] f.k = "Translation" ->
            [k |-> "Translation", languages |-> f.languages]
      [] f.k = "TranslationVariableLanguages" ->
            [k |-> "TranslationVariableLanguages", languages |-> f.languages]
      [] f.k = "HfImage" ->
            [k |-> "Image", np_dtype |-> DType("uint", 8), encoding_format |-> "png"]
      [] f.k = "HfAudio" -> AudioFeature(f.sampling_rate)
      [] OTHER -> Err("ValueError")

\* The label enumerations: every combination of the three sources, each absent
\* (None), empty, or set.
HfClassLabels ==
    { HfClassLabel(n, nf, nc) :
        n \in {None, List(<<>>), List(<<Str("a"), Str("b")>>)},
        nf \in {None, Str(""), Str("labels.txt")},
        nc \in {None, IntV(0), IntV(2), IntV(3)} }

HfLeaves ==
    { HfValue(d) : d \in {"bool", "float", "string", "int8", "int64",
                          "timestamp[s]", "bfloat16", "decimal128"} }
    \cup { HfImage, HfAudio(3), HfArray2D,
           HfTranslation(<<"en", "fr">>), HfTranslationVL(<<"en", "fr">>) }

HfFeatureSpecs ==
    HfClassLabels \cup HfLeaves
    \cup { HfSequence(l) : l \in HfLeaves }
    \cup { List(<<>>), List(<<HfValue("int8")>>),
           List(<<HfValue("int8"), HfValue("int8")>>),
           List(<<HfClassLabel(None, None, None)>>) }
    \cup { HfDict(<<"id", "label">>,
                  [n \in {"id", "label"} |-> IF n = "id" THEN HfValue("int64") ELSE c]) :
              c \in HfClassLabels }

ExtractInit ==
    /\ fs = {}
    /\ ConvOff
    /\ BuilderOff
    /\ PipelineOff
    /\ hf_features \in HfFeatureSpecs
    /\ tfds_features = None
    /\ epc = "ready"

\* tfds_features = extract_features(hf_features)
CallExtract ==
    /\ epc = "ready"
    /\ tfds_features' = extract_features(hf_features)
    /\ epc' = "extracted"
    /\ UNCHANGED <<fs, convVars, hf_features, builderVars, pipelineVars>>

ExtractNext == CallExtract

SpecExtract == ExtractInit /\ [][ExtractNext]_vars

\* The sources of a label enumeration, in the order the translator asks for them.
LabelSources(f) ==
    << <<"names", f.names>>, <<"names_file", f.names_file>>,
       <<"num_classes", f.num_classes>> >>
Available(f) == { i \in 1..3 : Truthy(LabelSources(f)[i][2]) }
FirstAvailable(f) == CHOOSE i \in Available(f) : \A j \in Available(f) : i <= j

\* C9: the translated label enumeration is built from the first available of the
\* names list, the names file and the class count, in that order, and the
\* translation raises when none of the three is available.
C9_LabelPriority ==
    (epc = "extracted" /\ hf_features.k = "ClassLabel") =>
        IF Available(hf_features) = {}
        THEN IsErr(tfds_features)
        ELSE /\ tfds_features.k = "ClassLabel"
             /\ tfds_features.by = LabelSources(hf_features)[FirstAvailable(hf_features)][1]
             /\ tfds_features.arg = LabelSources(hf_features)[FirstAvailable(hf_features)][2]

\* C9 witness: a label enumeration with both a names list and a names file was
\* translated, and the names list won.
C9_Witness ==
    /\ epc = "extracted"
    /\ hf_features.k = "ClassLabel"
    /\ Truthy(hf_features.names) /\ Truthy(hf_features.names_file)
    /\ tfds_features.k = "ClassLabel" /\ tfds_features.by = "names"

(***************************************************************************)
(* The builder's one-time acquisition: login_to_hf,                        *)
(* _download_and_prepare_for_hf, _hf_features, _info, _split_generators    *)
(***************************************************************************)
BuilderIds == {"b1", "b2"}
\* The calls one run makes.
MaxCalls == 4
\* @functools.lru_cache(maxsize=1)
LruMaxSize == 1

\* login_to_hf(hf_hub_token): the token, or the environment's; no login without one.
LoginPerformed(hf_hub_token, env) ==
    LET token == IF Truthy(hf_hub_token) THEN hf_hub_token ELSE env
    IN  token # None

\* functools.lru_cache: the entries, least recently used first.
LruHit(cache, key) == \E i \in 1..Len(cache) : cache[i][1] = key
LruValue(cache, key) == cache[CHOOSE i \in 1..Len(cache) : cache[i][1] = key][2]
LruTouch(cache, key) ==
    LET i == CHOOSE j \in 1..Len(cache) : cache[j][1] = key
    IN  Append(SelectSeq(cache, LAMBDA e : e[1] # key), cache[i])
LruInsert(cache, key, value) ==
    LET all == Append(cache, <<key, value>>)
    IN  IF Len(all) > LruMaxSize THEN SubSeq(all, Len(all) - LruMaxSize + 1, Len(all))
        ELSE all

\* The body of _download_and_prepare_for_hf: the dataset object as_dataset returns,
\* a new one at every run of the body.
DatasetObject(b, n) == [k |-> "DatasetDict", builder |-> b, n |-> n]

\* __init__: self._verification_mode, from the ignore_verifications argument.
VerificationMode(ignore_verifications) ==
    IF ignore_verifications THEN "all_checks" ELSE "no_checks"

\* The builder __init__ leaves: the features of its info, its token, its
\* verification mode (and the ignore_verifications it was constructed with).
NewBuilder(args) ==
    [info_features |-> args.info_features,
     hf_hub_token |-> args.hf_hub_token,
     ignore_verifications |-> args.ignore_verifications,
     verification_mode |-> VerificationMode(args.ignore_verifications)]

\* One run of the body hands self._verification_mode to download_and_prepare and
\* to as_dataset.
HandOver(h, mode) ==
    [download_and_prepare |-> h.download_and_prepare \cup {mode},
     as_dataset |-> h.as_dataset \cup {mode}]

\* The state after self._download_and_prepare_for_hf() on builder b, as the record
\* [lru, logins, downloads, returned, handed, value].
DownloadAndPrepare(b, st) ==
    IF LruHit(st.lru, b)
    THEN [st EXCEPT !.lru = LruTouch(st.lru, b),
                    !.value = LruValue(st.lru, b),
                    !.returned = [st.returned EXCEPT ![b] = @ \cup {LruValue(st.lru, b)}]]
    ELSE LET dataset == DatasetObject(b, st.downloads[b] + 1)
         IN  [lru |-> LruInsert(st.lru, b, dataset),
              logins |-> [st.logins EXCEPT ![b] =
                             IF LoginPerformed(builders[b].hf_hub_token, env_token)
                             THEN @ + 1 ELSE @],
              downloads |-> [st.downloads EXCEPT ![b] = @ + 1],
              returned |-> [st.returned EXCEPT ![b] = @ \cup {dataset}],
              handed |-> [st.handed EXCEPT ![b] =
                             HandOver(@, builders[b].verification_mode)],
              value |-> dataset]

\* self._hf_features(): the features of the info when it has them, else those of
\* the downloaded dataset.
HfFeaturesOf(b, st) ==
    IF builders[b].info_features # None THEN st
    ELSE DownloadAndPrepare(b, st)

CurrentState ==
    [lru |-> lru, logins |-> logins, downloads |-> downloads, returned |-> returned,
     handed |-> handed, value |-> None]

Commit(st) ==
    /\ lru' = st.lru
    /\ logins' = st.logins
    /\ downloads' = st.downloads
    /\ returned' = st.returned
    /\ handed' = st.handed

BuilderInit ==
    /\ fs = {}
    /\ ConvOff
    /\ ExtractOff
    /\ PipelineOff
    /\ builders \in
          { [b \in BuilderIds |-> NewBuilder(args[b])] :
              args \in [BuilderIds -> [info_features : {None, Str("features")},
                                       hf_hub_token : {None, Str("token")},
                                       ignore_verifications : BOOLEAN]] }
    /\ env_token \in {None, Str("env-token")}
    /\ lru = <<>>
    /\ info_memo = [b \in BuilderIds |-> None]
    /\ logins = [b \in BuilderIds |-> 0]
    /\ downloads = [b \in BuilderIds |-> 0]
    /\ returned = [b \in BuilderIds |-> {}]
    /\ handed = [b \in BuilderIds |-> [download_and_prepare |-> {}, as_dataset |-> {}]]
    /\ calls = 0

\* builder._download_and_prepare_for_hf()
CallDownloadAndPrepare(b) ==
    /\ calls < MaxCalls
    /\ calls' = calls + 1
    /\ Commit(DownloadAndPrepare(b, CurrentState))
    /\ UNCHANGED <<fs, convVars, extractVars, pipelineVars, builders, env_token, info_memo>>

\* builder._hf_features()
CallHfFeatures(b) ==
    /\ calls < MaxCalls
    /\ calls' = calls + 1
    /\ Commit(HfFeaturesOf(b, CurrentState))
    /\ UNCHANGED <<fs, convVars, extractVars, pipelineVars, builders, env_token, info_memo>>

\* @py_utils.memoize(): the result of the first call is kept on the builder.
MemoizeHit(memo, b) == memo[b] # None

\* The state after self._info(): memoized per builder.
InfoOf(b, st) == IF MemoizeHit(info_memo, b) THEN st ELSE HfFeaturesOf(b, st)

\* builder._info()
CallInfo(b) ==
    /\ calls < MaxCalls
    /\ calls' = calls + 1
    /\ Commit(InfoOf(b, CurrentState))
    /\ info_memo' = [info_memo EXCEPT ![b] = Str("info")]
    /\ UNCHANGED <<fs, convVars, extractVars, pipelineVars, builders, env_token>>

\* builder._split_generators(dl_manager): the download, then the first next() on
\* a split's generator, which runs self._info().
CallSplitGenerators(b) ==
    /\ calls < MaxCalls
    /\ calls' = calls + 1
    /\ Commit(InfoOf(b, DownloadAndPrepare(b, CurrentState)))
    /\ info_memo' = [info_memo EXCEPT ![b] = Str("info")]
    /\ UNCHANGED <<fs, convVars, extractVars, pipelineVars, builders, env_token>>

BuilderNext ==
    \E b \in BuilderIds :
        \/ CallDownloadAndPrepare(b)
        \/ CallHfFeatures(b)
        \/ CallInfo(b)
        \/ CallSplitGenerators(b)

SpecBuilder == BuilderInit /\ [][BuilderNext]_vars

\* C6: over any sequence of calls on any builders, the login and the foreign
\* download-and-prepare are each performed at most once per builder, and every
\* call on a builder returns the same cached dataset.
C6_AtMostOnce ==
    \A b \in BuilderIds :
        /\ logins[b] <= 1
        /\ downloads[b] <= 1
        /\ Cardinality(returned[b]) <= 1

(***************************************************************************)
(* The split pipeline: _split_generators, _generate_examples and           *)
(* _remove_empty_splits                                                    *)
(***************************************************************************)
\* ds.items(), in order.
SplitOrder == <<"train", "test">>
SplitSet == {SplitOrder[i] : i \in 1..Len(SplitOrder)}
\* The records of one split, at most.
MaxLen == 2
\* The largest tfds_num_proc.
MaxProc == 2

\* self._info().features
PipelineFeatures ==
    FeaturesDict(<<"id", "clip">>, [n \in {"id", "clip"} |-> IF n = "id" THEN I8 ELSE Aud])

RecordWithClip ==
    Dict([n \in {"id", "clip"} |->
             IF n = "id" THEN IntV(1)
             ELSE Dict([m \in {"array"} |-> List(<<Float(1), Float(-3)>>)])])
RecordWithoutClip == Dict([n \in {"id"} |-> IntV(2)])
\* Its clip has no samples and names a file that does not exist.
RecordUnconvertible ==
    Dict([n \in {"id", "clip"} |->
             IF n = "id" THEN IntV(3) ELSE Dict([m \in {"path"} |-> Str("/b.wav")])])
Records == {RecordWithClip, RecordWithoutClip, RecordUnconvertible}
\* The data of a split: up to MaxLen records, each its own (ids are unique).
DataSeqs ==
    UNION { {d \in [1..n -> Records] : \A i, j \in 1..n : d[i] = d[j] => i = j} :
              n \in 0..MaxLen }

\* convert_example = functools.partial(convert_hf_value, feature=...): a mutation
\* of it that puts the default in the place of a record it cannot convert.
convert_example_or_default(rec) ==
    LET val == convert_hf_value(rec, PipelineFeatures)
    IN  IF IsErr(val) THEN _get_default_value(PipelineFeatures) ELSE val

\* convert_example = functools.partial(convert_hf_value, feature=self._info().features)
convert_example(rec) == convert_hf_value(rec, PipelineFeatures)

\* One pair of enumerate(...).
EnumeratePair(count, example) == [index |-> count, example |-> example]

\* A generator object of _generate_examples before its first next(). src_pos counts
\* the records drawn from data, count is enumerate's counter; of the pool: the
\* indices of the tasks the workers completed, the results not yet handed out, the
\* index imap hands out next, whether the task feeder reached the end of data, and
\* (for the record only) whether a task was completed before an earlier one.
NewGenerator ==
    [gen |-> "created", src_pos |-> 0, count |-> 0, pool |-> "none",
     fed_all |-> FALSE, completed |-> {}, results |-> <<>>, index |-> 0,
     overtaken |-> FALSE]

\* The sequential arm: one next() of enumerate(map(convert_example, data)).
SeqOutcome(p, data) ==
    IF p.src_pos = Len(data) THEN "stop"
    ELSE IF IsErr(convert_example(data[p.src_pos + 1])) THEN "raise"
    ELSE "yield"
SeqPair(p, data) == EnumeratePair(p.count, convert_example(data[p.src_pos + 1]))
SeqAfter(p, data) ==
    CASE SeqOutcome(p, data) = "stop" -> [p EXCEPT !.gen = "done"]
      [] SeqOutcome(p, data) = "raise" ->
            [p EXCEPT !.gen = "raised", !.src_pos = @ + 1]
      [] OTHER -> [p EXCEPT !.gen = "suspended", !.src_pos = @ + 1, !.count = @ + 1]

\* pool.imap: a mutation of it that hands out results as they complete (imap_unordered).
imap_unordered_ready(results, index) == DOMAIN results

\* pool.imap: the results it can hand out now: the one at its index, once there.
imap_ready(results, index) == IF index \in DOMAIN results THEN {index} ELSE {}

\* The tasks the workers may complete next: processes workers take the tasks in
\* the order they were fed and finish them in any order.
Pending(p) == (0..(p.src_pos - 1)) \ p.completed
Window(p, processes) ==
    {i \in Pending(p) : Cardinality({j \in Pending(p) : j < i}) < processes}

\* The pool arm: one next() of enumerate(pool.imap(convert_example, data)), handing
\* out result i; a raise leaves the with block, which terminates the pool.
PoolOutcome(p, i) == IF IsErr(p.results[i]) THEN "raise" ELSE "yield"
PoolPair(p, i) == EnumeratePair(p.count, p.results[i])
PoolAfter(p, i) ==
    LET q == [p EXCEPT !.results = [j \in DOMAIN p.results \ {i} |-> p.results[j]],
                       !.index = @ + 1]
    IN  IF PoolOutcome(p, i) = "raise"
        THEN [q EXCEPT !.gen = "raised", !.pool = "closed"]
        ELSE [q EXCEPT !.gen = "suspended", !.count = @ + 1]
\* imap raises StopIteration once it handed out as many results as data held.
PoolStops(p) ==
    /\ imap_ready(p.results, p.index) = {}
    /\ p.fed_all
    /\ p.index = p.src_pos
PoolAfterStop(p) == [p EXCEPT !.gen = "done", !.pool = "closed"]

\* itertools.chain([first_example], examples_iterator): a mutation of it that
\* passes on examples_iterator alone.
ChainWithoutFirst(first_example) == <<>>

\* itertools.chain([first_example], examples_iterator): its list part.
Chain(first_example) == <<first_example>>

\* logging.warning(_EMPTY_SPLIT_WARNING_MSG, split): a mutation that logs nothing.
LogNothing(log, split) == log

\* logging.warning(_EMPTY_SPLIT_WARNING_MSG, split)
LogWarning(log, split) == Append(log, split)

PipelineInit ==
    /\ fs = {"/a.wav"}
    /\ ConvOff
    /\ ExtractOff
    /\ BuilderOff
    /\ tfds_num_proc \in {None} \cup {IntV(n) : n \in 1..MaxProc}
    /\ split_order \in {SubSeq(SplitOrder, 1, n) : n \in 0..Len(SplitOrder)}
    /\ ds \in [SplitSet -> DataSeqs]
    /\ \A s \in SplitSet : (\A i \in 1..Len(split_order) : split_order[i] # s) => ds[s] = <<>>
    /\ pipe = [s \in SplitSet |-> NewGenerator]
    /\ yielded = [s \in SplitSet |-> <<>>]
    /\ head = [s \in SplitSet |-> <<>>]
    /\ stream = [s \in SplitSet |-> "none"]
    /\ emitted = [s \in SplitSet |-> <<>>]
    /\ non_empty_splits = <<>>
    /\ warnings = <<>>
    /\ cursor = 1
    /\ pc = "filter"

OtherVars == <<fs, convVars, extractVars, builderVars, tfds_num_proc, split_order, ds>>

\* What next(examples_iterator) in _remove_empty_splits does with its outcome.
FilterTakes(s, outcome, pair, after) ==
    /\ pipe' = [pipe EXCEPT ![s] = after]
    /\ UNCHANGED <<emitted, OtherVars>>
    /\ CASE outcome = "yield" ->
              /\ yielded' = [yielded EXCEPT ![s] = Append(@, pair)]
              /\ head' = [head EXCEPT ![s] = Chain(pair)]
              /\ stream' = [stream EXCEPT ![s] = "open"]
              /\ non_empty_splits' = Append(non_empty_splits, s)
              /\ cursor' = cursor + 1
              /\ pc' = "filter"
              /\ UNCHANGED warnings
         [] outcome = "stop" ->
              /\ warnings' = LogWarning(warnings, s)
              /\ cursor' = cursor + 1
              /\ pc' = "filter"
              /\ UNCHANGED <<yielded, head, stream, non_empty_splits>>
         [] OTHER ->
              /\ pc' = "raised"
              /\ UNCHANGED <<yielded, head, stream, non_empty_splits, warnings, cursor>>

\* _remove_empty_splits, one turn of its loop without a pool: the first next() runs
\* the generator to its first yield, its end or its exception.
PeekSequential ==
    /\ pc = "filter"
    /\ cursor <= Len(split_order)
    /\ tfds_num_proc = None
    /\ LET s == split_order[cursor]
       IN  FilterTakes(s, SeqOutcome(pipe[s], ds[s]), SeqPair(pipe[s], ds[s]),
                       SeqAfter(pipe[s], ds[s]))

\* _remove_empty_splits, one turn of its loop with a pool: the first next() opens
\* the pool, hands data to imap and waits for the first result.
PeekPoolStart ==
    /\ pc = "filter"
    /\ cursor <= Len(split_order)
    /\ tfds_num_proc # None
    /\ pipe' = [pipe EXCEPT ![split_order[cursor]].pool = "open",
                            ![split_order[cursor]].gen = "running"]
    /\ pc' = "peeking"
    /\ UNCHANGED <<yielded, head, stream, emitted, non_empty_splits, warnings, cursor,
                   OtherVars>>

\* The pool's task feeder draws the next record of data and queues its task.
PoolFeed(s) ==
    /\ pc \in {"filter", "peeking", "returned"}
    /\ pipe[s].pool = "open"
    /\ pipe[s].src_pos < Len(ds[s])
    /\ pipe' = [pipe EXCEPT ![s].src_pos = @ + 1]
    /\ UNCHANGED <<yielded, head, stream, emitted, non_empty_splits, warnings, cursor,
                   pc, OtherVars>>

\* The task feeder finds data exhausted and tells imap its length.
PoolFeedEnd(s) ==
    /\ pc \in {"filter", "peeking", "returned"}
    /\ pipe[s].pool = "open"
    /\ pipe[s].src_pos = Len(ds[s])
    /\ ~pipe[s].fed_all
    /\ pipe' = [pipe EXCEPT ![s].fed_all = TRUE]
    /\ UNCHANGED <<yielded, head, stream, emitted, non_empty_splits, warnings, cursor,
                   pc, OtherVars>>

\* A worker completes task i: the conversion of record i, or its exception.
PoolWorkerFinish(s, i) ==
    /\ pc \in {"filter", "peeking", "returned"}
    /\ pipe[s].pool = "open"
    /\ i \in Window(pipe[s], tfds_num_proc.v)
    /\ pipe' = [pipe EXCEPT
                  ![s].completed = @ \cup {i},
                  ![s].results = [j \in DOMAIN @ \cup {i} |->
                                     IF j = i THEN convert_example(ds[s][i + 1]) ELSE @[j]],
                  ![s].overtaken = @ \/ \E j \in Pending(pipe[s]) : j < i]
    /\ UNCHANGED <<yielded, head, stream, emitted, non_empty_splits, warnings, cursor,
                   pc, OtherVars>>

\* The waiting next() of _remove_empty_splits gets its result from imap.
PeekPoolResult ==
    /\ pc = "peeking"
    /\ LET s == split_order[cursor]
           p == pipe[s]
       IN  \/ \E i \in imap_ready(p.results, p.index) :
                 FilterTakes(s, PoolOutcome(p, i), PoolPair(p, i), PoolAfter(p, i))
           \/ /\ PoolStops(p)
              /\ FilterTakes(s, "stop", None, PoolAfterStop(p))

\* _remove_empty_splits returns non_empty_splits, and _split_generators returns it.
Return ==
    /\ pc = "filter"
    /\ cursor > Len(split_order)
    /\ pc' = "returned"
    /\ UNCHANGED <<pipe, yielded, head, stream, emitted, non_empty_splits, warnings,
                   cursor, OtherVars>>

\* What a next() of the consumer on the chain's examples_iterator part gets.
ConsumerTakes(s, outcome, pair, after) ==
    /\ pipe' = [pipe EXCEPT ![s] = after]
    /\ UNCHANGED <<head, non_empty_splits, warnings, cursor, pc, OtherVars>>
    /\ CASE outcome = "yield" ->
              /\ yielded' = [yielded EXCEPT ![s] = Append(@, pair)]
              /\ emitted' = [emitted EXCEPT ![s] = Append(@, pair)]
              /\ UNCHANGED stream
         [] outcome = "stop" ->
              /\ stream' = [stream EXCEPT ![s] = "exhausted"]
              /\ UNCHANGED <<yielded, emitted>>
         [] OTHER ->
              /\ stream' = [stream EXCEPT ![s] = "raised"]
              /\ UNCHANGED <<yielded, emitted>>

\* The consumer's next() on a returned stream while the chain still holds its
\* list part: the first example comes back.
ConsumeFirst(s) ==
    /\ pc = "returned"
    /\ stream[s] = "open"
    /\ head[s] # <<>>
    /\ emitted' = [emitted EXCEPT ![s] = Append(@, Head(head[s]))]
    /\ head' = [head EXCEPT ![s] = Tail(@)]
    /\ UNCHANGED <<pipe, yielded, stream, non_empty_splits, warnings, cursor, pc,
                   OtherVars>>

\* The consumer's next() past the list part, without a pool.
ConsumeSequential(s) ==
    /\ pc = "returned"
    /\ stream[s] = "open"
    /\ head[s] = <<>>
    /\ tfds_num_proc = None
    /\ ConsumerTakes(s, SeqOutcome(pipe[s], ds[s]), SeqPair(pipe[s], ds[s]),
                     SeqAfter(pipe[s], ds[s]))

\* The consumer's next() past the list part, with a pool.
ConsumePool(s) ==
    /\ pc = "returned"
    /\ stream[s] = "open"
    /\ head[s] = <<>>
    /\ tfds_num_proc # None
    /\ \/ \E i \in imap_ready(pipe[s].results, pipe[s].index) :
             ConsumerTakes(s, PoolOutcome(pipe[s], i), PoolPair(pipe[s], i),
                           PoolAfter(pipe[s], i))
       \/ /\ PoolStops(pipe[s])
          /\ ConsumerTakes(s, "stop", None, PoolAfterStop(pipe[s]))

Next ==
    \/ PeekSequential
    \/ PeekPoolStart
    \/ PeekPoolResult
    \/ Return
    \/ \E s \in SplitSet :
          \/ PoolFeed(s)
          \/ PoolFeedEnd(s)
          \/ \E i \in 0..(MaxLen + 1) : PoolWorkerFinish(s, i)
          \/ ConsumeFirst(s)
          \/ ConsumeSequential(s)
          \/ ConsumePool(s)

Init == PipelineInit

Spec == Init /\ [][Next]_vars

(***************************************************************************)
(* Claims about the split pipeline (checked under Spec)                    *)
(***************************************************************************)
Splits == {split_order[i] : i \in 1..Len(split_order)}
Kept == {non_empty_splits[i] : i \in 1..Len(non_empty_splits)}
IsPrefix(a, b) == Len(a) <= Len(b) /\ \A i \in 1..Len(a) : a[i] = b[i]

\* The pairs of a split, were every record converted in place.
Expected(s) ==
    [i \in 1..Len(ds[s]) |->
        [index |-> i - 1, example |-> Convert(ds[s][i], PipelineFeatures, fs)]]
\* The position (from 1) of the first record of the split that does not convert,
\* or one past its end.
FirstBad(s) ==
    LET bad == {i \in 1..Len(ds[s]) : IsErr(Expected(s)[i].example)}
    IN  IF bad = {} THEN Len(ds[s]) + 1
        ELSE CHOOSE i \in bad : \A j \in bad : i <= j
\* The records of the split converted so far.
ConvertedCount(s) ==
    IF pipe[s].pool = "none" THEN pipe[s].src_pos ELSE Cardinality(pipe[s].completed)

\* C1: the stream the filter returns for a split delivers what the split's input
\* stream yields, in that order: at every moment the pairs delivered, followed by
\* the first pair while it is still held back, are the pairs the input stream has
\* yielded, and a stream consumed to exhaustion has delivered all of them.
C1_SpliceKeepsStream ==
    \A s \in SplitSet :
        stream[s] # "none" =>
            /\ emitted[s] \o head[s] = yielded[s]
            /\ Len(yielded[s]) >= 1
            /\ stream[s] = "exhausted" =>
                  (emitted[s] = yielded[s] /\ pipe[s].gen = "done")

\* C1 witness: with two splits kept, one of two records was consumed to exhaustion.
C1_Witness ==
    /\ Len(non_empty_splits) = 2
    /\ \E s \in SplitSet : stream[s] = "exhausted" /\ Len(emitted[s]) = 2

\* C2: the filtered result holds exactly the splits with at least one record; each
\* empty split is warned about exactly once and raises nothing; no warning names a
\* split with records.
C2_EmptySplitsDropped ==
    /\ \A i \in 1..Len(warnings) :
          /\ ds[warnings[i]] = <<>>
          /\ \A j \in 1..Len(warnings) : warnings[i] = warnings[j] => i = j
    /\ \A s \in Kept : ds[s] # <<>>
    /\ pc = "raised" => ds[split_order[cursor]] # <<>>
    /\ pc = "returned" =>
          /\ Kept = {s \in Splits : ds[s] # <<>>}
          /\ {warnings[i] : i \in 1..Len(warnings)} = {s \in Splits : ds[s] = <<>>}

\* C2 witness: the filter returned one split of two, and warned about the other.
C2_Witness ==
    /\ pc = "returned"
    /\ Len(split_order) = 2
    /\ Len(non_empty_splits) = 1
    /\ Len(warnings) = 1

\* C3: with or without a pool, whatever the order the workers finish in, the pairs
\* of a split are (0, convert(r0)), (1, convert(r1)), ... in record order: what was
\* yielded and delivered so far is a prefix of that, and an exhausted stream has
\* delivered all N of them.
C3_OrderedPairs ==
    \A s \in SplitSet :
        /\ IsPrefix(yielded[s], Expected(s))
        /\ IsPrefix(emitted[s], Expected(s))
        /\ stream[s] = "exhausted" => emitted[s] = Expected(s)

\* C3 witness: a pool completed a later task before an earlier one, and the split's
\* two pairs were delivered to exhaustion.
C3_Witness ==
    \E s \in SplitSet :
        /\ tfds_num_proc # None
        /\ pipe[s].overtaken
        /\ stream[s] = "exhausted"
        /\ Len(emitted[s]) = 2

\* C4: when _split_generators has returned and nothing was consumed yet, exactly
\* one record of every kept split was drawn from its data and converted, with and
\* without a pool.
C4_PeekIsLazy ==
    (pc = "returned" /\ \A s \in SplitSet : emitted[s] = <<>>) =>
        \A s \in Kept :
            /\ pipe[s].src_pos = 1
            /\ ConvertedCount(s) = 1

\* C5, as claimed: when a record of a split does not convert, the error reaches
\* the stream's consumer, no pair is made for that record or a later one, and the
\* split has produced no output at all.
C5_NoPartialOutput ==
    \A s \in SplitSet :
        /\ Len(yielded[s]) < FirstBad(s)
        /\ pipe[s].gen = "raised" =>
              /\ pc = "raised" \/ stream[s] = "raised"
              /\ yielded[s] = <<>>
              /\ emitted[s] = <<>>

\* C5, amended: when record k of a split does not convert, the error reaches the
\* stream's consumer, no pair is ever made for record k or a later one (it is
\* neither dropped nor defaulted), and the split's output is exactly the pairs of
\* the records before k, which the lazy stream had already delivered; a split
\* with such a record never ends normally.
C5_AbortsAtFirstBad ==
    \A s \in SplitSet :
        /\ Len(yielded[s]) < FirstBad(s)
        /\ pipe[s].gen = "raised" =>
              /\ pc = "raised" \/ stream[s] = "raised"
              /\ yielded[s] = SubSeq(Expected(s), 1, FirstBad(s) - 1)
              /\ emitted[s] \o head[s] = yielded[s]
        /\ pipe[s].gen = "done" => FirstBad(s) = Len(ds[s]) + 1

\* C5 witness: a stream raised at its consumer after it had delivered a pair.
C5_Witness ==
    \E s \in SplitSet : stream[s] = "raised" /\ Len(emitted[s]) >= 1

\* The flags handed to the foreign calls for builder b so far.
FlagsHanded(b) == handed[b].download_and_prepare \cup handed[b].as_dataset

\* C11: the validation flag handed to the foreign materializer is "no_checks"
\* exactly when the builder was constructed with ignore_verifications=True and
\* "all_checks" otherwise, and download_and_prepare and as_dataset get the same flag.
C11_VerificationFlag ==
    \A b \in BuilderIds :
        /\ FlagsHanded(b) \subseteq
              {IF builders[b].ignore_verifications THEN "no_checks" ELSE "all_checks"}
        /\ handed[b].download_and_prepare = handed[b].as_dataset

====
